---- MODULE Spec2Model ----
(***************************************************************************)
(* Model of the iref-enum derive macro (src/src/lib.rs).                   *)
(*                                                                         *)
(* A Rust string is a sequence of characters, each character a one-letter  *)
(* TLA+ string.  "E" stands for the two-byte character U+00E9; every other *)
(* character of the model is one byte.  Rust indices are 0-based; Find     *)
(* returns the 0-based index, and sequences are read at index + 1.         *)
(***************************************************************************)
EXTENDS Integers, Sequences, FiniteSets, TLC

VARIABLES
  pc,               \* position of the modelled computation
  ast,              \* the syn::DeriveInput given to iri_enum_derive
  i,                \* index (1-based) of the next attribute / variant to process
  prefixes,         \* HashMap<String, IriBuf> of lib.rs:112
  try_from,         \* match arms accumulated at lib.rs:157
  try_from_default, \* fallback chain of lib.rs:158, outermost match first
  into,             \* match arms accumulated at lib.rs:159
  output,           \* the TokenStream iri_enum_derive returns
  arg,              \* argument of the last call of a generated or pure function
  ret               \* its result

vars == <<pc, ast, i, prefixes, try_from, try_from_default, into, output, arg, ret>>

\* ------------------------------------------------------------ bounds
MaxLitLen == 5      \* characters of a literal token's text
MaxValueLen == 4    \* characters of a raw string given to expand_iri
MaxStreamLen == 4   \* tokens inside an iri_prefix(...) group
MaxVariants == 3    \* variants of the enum

\* ------------------------------------------------------------ strings
Q == "\""
BS == "\\"
None == -1

Ok(v) == [ok |-> TRUE, val |-> v]
Err(e) == [ok |-> FALSE, val |-> e]
Unit == <<>>

StrsUpTo(chars, n) == UNION {[1..k -> chars] : k \in 0..n}

\* str::find(c): the 0-based index of the first c, or None.
RECURSIVE FindFrom(_, _, _)
FindFrom(s, c, k) ==
  IF k > Len(s) THEN None
  ELSE IF s[k] = c THEN k - 1
  ELSE FindFrom(s, c, k + 1)

Find(s, c) == FindFrom(s, c, 1)

\* str::starts_with
StartsWith(s, p) == Len(s) >= Len(p) /\ SubSeq(s, 1, Len(p)) = p

\* Number of bytes of a character in UTF-8.
Utf8Len(c) == IF c = "E" THEN 2 ELSE 1

\* str::len(): the length in bytes.
RECURSIVE ByteLen(_)
ByteLen(s) == IF s = <<>> THEN 0 ELSE Utf8Len(Head(s)) + ByteLen(Tail(s))

\* ------------------------------------------------------------ iref::IriBuf::new
\* The RFC 3987 grammar the iref crate validates, on the model's characters.
IsAlpha(c) == c \in {"a", "b", "c", "p", "r", "s", "z"}
IsDigit(c) == c \in {"1"}
IsSchemeChar(c) == IsAlpha(c) \/ IsDigit(c) \/ c \in {"+", "-", "."}
IsUcsChar(c) == c = "E"
IsIregChar(c) == IsAlpha(c) \/ IsDigit(c) \/ IsUcsChar(c)
IsIpChar(c) == IsIregChar(c) \/ c \in {":", "@"}

PathValid(p) == \A k \in DOMAIN p : IsIpChar(p[k]) \/ p[k] = "/"

AuthorityValid(a) ==
  LET c == Find(a, ":") IN
  IF c = None THEN \A k \in DOMAIN a : IsIregChar(a[k])
  ELSE /\ \A k \in 1..c : IsIregChar(a[k])
       /\ \A k \in (c + 2)..Len(a) : IsDigit(a[k])

HierValid(m) ==
  IF StartsWith(m, <<"/", "/">>)
  THEN LET after == SubSeq(m, 3, Len(m))
           slash == Find(after, "/")
           auth == IF slash = None THEN after ELSE SubSeq(after, 1, slash)
           path == IF slash = None THEN <<>> ELSE SubSeq(after, slash + 1, Len(after))
       IN AuthorityValid(auth) /\ PathValid(path)
  ELSE PathValid(m)

IriValid(s) ==
  LET colon == Find(s, ":") IN
  /\ colon > 0
  /\ IsAlpha(s[1])
  /\ \A k \in 2..colon : IsSchemeChar(s[k])
  /\ LET rest == SubSeq(s, colon + 2, Len(s))
         hash == Find(rest, "#")
         main == IF hash = None THEN rest ELSE SubSeq(rest, 1, hash)
         frag == IF hash = None THEN <<>> ELSE SubSeq(rest, hash + 2, Len(rest))
     IN /\ \A k \in DOMAIN frag : IsIpChar(frag[k]) \/ frag[k] \in {"/", "?"}
        /\ HierValid(main)

\* IriBuf::new(String) -> Result<IriBuf, InvalidIri<String>>
IriBuf_new(s) == IF IriValid(s) THEN Ok(s) ELSE Err(s)

\* ------------------------------------------------------------ string_literal_token
\* Tokens (proc_macro2::TokenTree): a Literal carries its source text, a Group
\* its inner stream.
Literal(text) == [kind |-> "Literal", text |-> text, stream |-> <<>>]
Punct(c) == [kind |-> "Punct", text |-> <<c>>, stream |-> <<>>]
Ident(text) == [kind |-> "Ident", text |-> text, stream |-> <<>>]
Group(stream) == [kind |-> "Group", text |-> <<>>, stream |-> stream]

\* The loop of lib.rs:310-318; k - 1 is the index enumerate() yields, len is
\* str.len(), in bytes.
RECURSIVE LitLoop(_, _, _, _)
LitLoop(str, len, k, buffer) ==
  IF k > Len(str) THEN Ok(buffer)
  ELSE IF k - 1 = 0 \/ k - 1 = len - 1
       THEN IF str[k] # Q THEN Err(Unit)
            ELSE LitLoop(str, len, k + 1, buffer)
       ELSE LitLoop(str, len, k + 1, Append(buffer, str[k]))

string_literal_token(token) ==
  IF token.kind = "Literal"
  THEN LET str == token.text IN
       IF ByteLen(str) >= 2 THEN LitLoop(str, ByteLen(str), 1, <<>>)
       ELSE Err(Unit)
  ELSE Err(Unit)

\* string_literal: the first token of the stream.
string_literal(tokens) ==
  IF Len(tokens) > 0 THEN string_literal_token(tokens[1]) ELSE Err(Unit)

\* ------------------------------------------------------------ expand_iri
\* A plausible slip: a failed expansion falls through to the absolute form.
expand_iri_Retry(value, table) ==
  LET index == Find(value, ":")
      prefix == SubSeq(value, 1, index)
      suffix == SubSeq(value, index + 2, Len(value))
      concat == table[prefix] \o suffix
  IN
  IF /\ index # None
     /\ index > 0
     /\ ~StartsWith(suffix, <<"/", "/">>)
     /\ prefix \in DOMAIN table
     /\ IriBuf_new(concat).ok
  THEN Ok(concat)
  ELSE IF IriBuf_new(value).ok THEN Ok(value) ELSE Err(Unit)

\* A plausible slip: the suffix is not tested for the authority marker.
expand_iri_NoAuthorityGuard(value, table) ==
  LET index == Find(value, ":")
      prefix == SubSeq(value, 1, index)
      suffix == SubSeq(value, index + 2, Len(value))
  IN
  IF /\ index # None
     /\ index > 0
     /\ prefix \in DOMAIN table
  THEN LET concat == table[prefix] \o suffix IN
       IF IriBuf_new(concat).ok THEN Ok(concat) ELSE Err(Unit)
  ELSE IF IriBuf_new(value).ok THEN Ok(value) ELSE Err(Unit)

\* lib.rs:82-106.
expand_iri(value, table) ==
  LET index == Find(value, ":")
      prefix == SubSeq(value, 1, index)
      suffix == SubSeq(value, index + 2, Len(value))
  IN
  IF /\ index # None
     /\ index > 0
     /\ ~StartsWith(suffix, <<"/", "/">>)
     /\ prefix \in DOMAIN table
  THEN LET concat == table[prefix] \o suffix IN
       IF IriBuf_new(concat).ok THEN Ok(concat) ELSE Err(Unit)
  ELSE IF IriBuf_new(value).ok THEN Ok(value) ELSE Err(Unit)

\* ------------------------------------------------------------ error!
\* The text "compile_error!(\"<msg>\");" lexes as Rust tokens only when msg is
\* well-formed string-literal content: a backslash takes the next character
\* with it and no bare quote occurs.  msg is a sequence of pieces, the fixed
\* pieces of the format string being one element each (their backquotes are
\* written as apostrophes).
RECURSIVE LexStringContent(_, _)
LexStringContent(msg, k) ==
  IF k > Len(msg) THEN TRUE
  ELSE IF msg[k] = BS THEN k + 1 <= Len(msg) /\ LexStringContent(msg, k + 2)
  ELSE IF msg[k] = Q THEN FALSE
  ELSE LexStringContent(msg, k + 1)

NoCode == [try_from |-> <<>>, try_from_default |-> <<>>, into |-> <<>>]

\* error!(...): parse().unwrap() panics when the text does not lex.
error(msg) ==
  IF LexStringContent(msg, 1)
  THEN [kind |-> "compile_error", msg |-> msg, code |-> NoCode]
  ELSE [kind |-> "panic", msg |-> msg, code |-> NoCode]

\* ------------------------------------------------------------ filter_attribute
\* An attribute: its path (a sequence of segments) and its tokens.
Attr(path, tokens) == [path |-> path, tokens |-> tokens]

FilterSome(stream) == [tag |-> "Some", stream |-> stream, out |-> error(<<>>)]
FilterNone == [tag |-> "None", stream |-> <<>>, out |-> error(<<>>)]
FilterErr(out) == [tag |-> "Err", stream |-> <<>>, out |-> out]

filter_attribute(attr, name) ==
  IF Len(attr.path) = 1
  THEN IF attr.path[1] = name
       THEN IF Len(attr.tokens) > 0 /\ attr.tokens[1].kind = "Group"
            THEN FilterSome(attr.tokens[1].stream)
            ELSE FilterErr(error(<<"malformed '", name, "' attribute">>))
       ELSE FilterNone
  ELSE FilterNone

\* ------------------------------------------------------------ iri_enum_derive
EmptyMap == [x \in {} |-> <<>>]

Insert(table, k, v) == [x \in DOMAIN table \cup {k} |-> IF x = k THEN v ELSE table[x]]

Continue(table) == [kind |-> "continue", prefixes |-> table, out |-> error(<<>>)]
Return(out) == [kind |-> "return", prefixes |-> EmptyMap, out |-> out]

\* One iteration of the loop over ast.attrs (lib.rs:113-152).
PrefixAttr(attr, table) ==
  LET f == filter_attribute(attr, "iri_prefix")
      tokens == f.stream
  IN
  IF f.tag = "Some"
  THEN IF Len(tokens) >= 1
       THEN LET prefix == string_literal_token(tokens[1]) IN
            IF prefix.ok
            THEN IF Len(tokens) >= 2
                 THEN IF Len(tokens) >= 3
                      THEN LET iri == string_literal_token(tokens[3]) IN
                           IF iri.ok
                           THEN IF IriBuf_new(iri.val).ok
                                THEN Continue(Insert(table, prefix.val, iri.val))
                                ELSE Return(error(<<"invalid IRI '">> \o iri.val
                                       \o <<"' for prefix '">> \o prefix.val \o <<"'">>))
                           ELSE Return(error(<<"expected a string literal">>))
                      ELSE Return(error(<<"expected a string literal">>))
                 ELSE Return(error(<<"expected '=' literal">>))
            ELSE Return(error(<<"expected a string literal">>))
       ELSE Return(error(<<"expected a string literal">>))
  ELSE IF f.tag = "None" THEN Continue(table)
  ELSE Return(f.out)

\* Identifier of the k-th declared variant.
IdentOf(k) == "V" \o ToString(k)

SomeIri(iri) == [some |-> TRUE, iri |-> iri]
NoIri == [some |-> FALSE, iri |-> <<>>]

IriOk(variant_iri) == [kind |-> "continue", variant_iri |-> variant_iri, out |-> error(<<>>)]
IriReturn(out) == [kind |-> "return", variant_iri |-> NoIri, out |-> out]

\* The loop over variant.attrs (lib.rs:165-183), from attribute k on.
RECURSIVE VariantAttrs(_, _, _, _, _)
VariantAttrs(attrs, k, variant_iri, variant_ident, table) ==
  IF k > Len(attrs) THEN IriOk(variant_iri)
  ELSE LET f == filter_attribute(attrs[k], "iri") IN
       IF f.tag = "Some"
       THEN LET str == string_literal(f.stream) IN
            IF str.ok
            THEN LET iri == expand_iri(str.val, table) IN
                 IF iri.ok
                 THEN VariantAttrs(attrs, k + 1, SomeIri(iri.val), variant_ident, table)
                 ELSE IriReturn(error(<<"invalid IRI '">> \o str.val
                        \o <<"' for variant '", variant_ident, "'">>))
            ELSE IriReturn(error(<<"malformed 'iri' attribute">>))
       ELSE IF f.tag = "None"
            THEN VariantAttrs(attrs, k + 1, variant_iri, variant_ident, table)
            ELSE IriReturn(f.out)

\* Generated fragments.
UnitArm(iri, variant_ident) == [iri |-> iri, variant |-> variant_ident]
DefaultMatch(ty, variant_ident) == [ty |-> ty, variant |-> variant_ident]
IntoUnit(variant_ident, iri) == [variant |-> variant_ident, unit |-> TRUE, iri |-> iri]
IntoWrap(variant_ident) == [variant |-> variant_ident, unit |-> FALSE, iri |-> <<>>]

Code(tf, tfd, it) == [try_from |-> tf, try_from_default |-> tfd, into |-> it]

VariantOk(code) == [kind |-> "continue", code |-> code, out |-> error(<<>>)]
VariantReturn(out) == [kind |-> "return", code |-> NoCode, out |-> out]

\* syn::Fields::Unit (lib.rs:186-200).
FieldsUnit(variant_iri, variant_ident, code) ==
  IF variant_iri.some
  THEN VariantOk(Code(
         Append(code.try_from, UnitArm(variant_iri.iri, variant_ident)),
         code.try_from_default,
         Append(code.into, IntoUnit(variant_ident, variant_iri.iri))))
  ELSE VariantReturn(error(<<"missing IRI for enum variant '", variant_ident, "'">>))

\* A plausible slip: a Wrapping variant's iri attribute is used, as a Unit
\* variant's is, and adds a guarded arm.
FieldsUnnamed_UsesIri(tys, variant_iri, variant_ident, code) ==
  IF Len(tys) = 1
  THEN VariantOk(Code(
         IF variant_iri.some
         THEN Append(code.try_from, UnitArm(variant_iri.iri, variant_ident))
         ELSE code.try_from,
         <<DefaultMatch(tys[1], variant_ident)>> \o code.try_from_default,
         Append(code.into, IntoWrap(variant_ident))))
  ELSE VariantReturn(error(<<"variants with named more than one field are unsupported">>))

\* A plausible slip: the new match is nested inside the previous chain, so
\* the chain runs in declaration order.
FieldsUnnamed_Appended(tys, variant_iri, variant_ident, code) ==
  IF Len(tys) = 1
  THEN VariantOk(Code(
         code.try_from,
         code.try_from_default \o <<DefaultMatch(tys[1], variant_ident)>>,
         Append(code.into, IntoWrap(variant_ident))))
  ELSE VariantReturn(error(<<"variants with named more than one field are unsupported">>))

\* syn::Fields::Unnamed (lib.rs:204-226).  try_from_default holds the nested
\* matches outermost first: the new match wraps the previous chain in its Err
\* branch (lib.rs:209-216).
FieldsUnnamed(tys, variant_iri, variant_ident, code) ==
  IF Len(tys) = 1
  THEN VariantOk(Code(
         code.try_from,
         <<DefaultMatch(tys[1], variant_ident)>> \o code.try_from_default,
         Append(code.into, IntoWrap(variant_ident))))
  ELSE VariantReturn(error(<<"variants with named more than one field are unsupported">>))

\* One iteration of the loop over e.variants (lib.rs:161-228).
Variant(variant, variant_ident, table, code) ==
  LET a == VariantAttrs(variant.attrs, 1, NoIri, variant_ident, table) IN
  IF a.kind = "return" THEN VariantReturn(a.out)
  ELSE IF variant.fields.kind = "Unit"
       THEN FieldsUnit(a.variant_iri, variant_ident, code)
       ELSE IF variant.fields.kind = "Named"
            THEN VariantReturn(error(<<"variants with named fields are unsupported">>))
            ELSE FieldsUnnamed(variant.fields.tys, a.variant_iri, variant_ident, code)

\* ------------------------------------------------------------ generated code
\* Inner types of wrapping variants: user types implementing TryFrom<&Iri> and
\* Into<&Iri>, here two vocabularies in the manner of OtherVocab.
I_a == <<"a", ":", "/", "a">>
I_b == <<"a", ":", "/", "b">>
I_c == <<"a", ":", "/", "c">>
I_z == <<"a", ":", "/", "z">>
I_pa == <<"p", ":", "a">>

InnerAccepts(ty) == IF ty = "T1" THEN {I_a, I_c} ELSE {I_c, I_b}

InnerValue(ty, iri) == [ty |-> ty, iri |-> iri]
InnerTryFrom(ty, iri) == IF iri \in InnerAccepts(ty) THEN Ok(InnerValue(ty, iri)) ELSE Err(Unit)
InnerInto(v) == v.iri

\* Values of the generated enum.
UnitValue(variant_ident) == [variant |-> variant_ident, inner |-> <<>>]
WrapValue(variant_ident, v) == [variant |-> variant_ident, inner |-> <<v>>]

\* A plausible slip: the outermost inner conversion is taken without looking
\* at its result.
DefaultEval_Unchecked(chain, iri) ==
  IF chain = <<>> THEN Err(Unit)
  ELSE Ok(WrapValue(chain[1].variant, InnerValue(chain[1].ty, iri)))

\* #try_from_default: match #ty::try_from(iri) { Ok(value) => .., Err(_) => {..} }
RECURSIVE DefaultEval(_, _)
DefaultEval(chain, iri) ==
  IF chain = <<>> THEN Err(Unit)
  ELSE LET r == InnerTryFrom(chain[1].ty, iri) IN
       IF r.ok THEN Ok(WrapValue(chain[1].variant, r.val))
       ELSE DefaultEval(Tail(chain), iri)

\* match iri { #try_from _ => #try_from_default }: the guarded arms in order.
RECURSIVE ArmsEval(_, _, _, _)
ArmsEval(arms, k, chain, iri) ==
  IF k > Len(arms) THEN DefaultEval(chain, iri)
  ELSE IF iri = arms[k].iri THEN Ok(UnitValue(arms[k].variant))
  ELSE ArmsEval(arms, k + 1, chain, iri)

Reverse(seq) == [k \in 1..Len(seq) |-> seq[Len(seq) + 1 - k]]

\* A plausible slip: the guarded arms are emitted in reverse order.
TryFromEval_LastArm(code, iri) ==
  ArmsEval(Reverse(code.try_from), 1, code.try_from_default, iri)

\* A plausible slip: the delegation chain is tried before the guarded arms.
TryFromEval_DefaultFirst(code, iri) ==
  LET r == DefaultEval(code.try_from_default, iri) IN
  IF r.ok THEN r ELSE ArmsEval(code.try_from, 1, <<>>, iri)

\* The body of the generated try_from (lib.rs:235-240).
TryFromEval(code, iri) == ArmsEval(code.try_from, 1, code.try_from_default, iri)

\* match vocab { #into }
RECURSIVE IntoEval(_, _, _)
IntoEval(arms, k, value) ==
  IF arms[k].variant = value.variant
  THEN IF arms[k].unit THEN arms[k].iri ELSE InnerInto(value.inner[1])
  ELSE IntoEval(arms, k + 1, value)

\* The values of the enum the generated code was derived for.
EnumValues(code) ==
  {UnitValue(code.into[k].variant) : k \in {j \in DOMAIN code.into : code.into[j].unit}}
  \cup UNION {{WrapValue(code.try_from_default[k].variant,
                         InnerValue(code.try_from_default[k].ty, iri)) :
                 iri \in InnerAccepts(code.try_from_default[k].ty)} :
              k \in DOMAIN code.try_from_default}

\* ------------------------------------------------------------ inputs
\* A string literal token with content s.
Lit(s) == Literal(<<Q>> \o s \o <<Q>>)

IriAttr(s) == Attr(<<"iri">>, <<Group(<<Lit(s)>>)>>)
PrefixAttrOf(stream) == Attr(<<"iri_prefix">>, <<Group(stream)>>)
DocAttr == Attr(<<"doc">>, <<Punct("="), Lit(<<"a">>)>>)

\* #[iri_prefix("p" = "a:/")]
PA_good == PrefixAttrOf(<<Lit(<<"p">>), Punct("="), Lit(<<"a", ":", "/">>)>>)

UnitFields == [kind |-> "Unit", tys |-> <<>>]
NamedFields == [kind |-> "Named", tys |-> <<"T1">>]
UnnamedFields(tys) == [kind |-> "Unnamed", tys |-> tys]

VariantOf(attrs, fields) == [attrs |-> attrs, fields |-> fields]

VariantPool ==
  {VariantOf(<<IriAttr(s)>>, UnitFields) : s \in {I_a, I_pa, I_c, <<"b">>}}
  \cup {VariantOf(<<>>, f) :
          f \in {UnitFields, UnnamedFields(<<"T1">>), UnnamedFields(<<"T2">>),
                 UnnamedFields(<<"T1", "T2">>)}}
  \cup {VariantOf(<<IriAttr(I_b)>>, UnnamedFields(<<"T1">>)),
        VariantOf(<<IriAttr(<<"b">>)>>, UnnamedFields(<<"T2">>)),
        VariantOf(<<IriAttr(<<"a", ":", "/", "E">>)>>, UnnamedFields(<<"T2">>))}

VariantLists == UNION {[1..n -> VariantPool] : n \in 0..MaxVariants}

Enum(attrs, variants) == [attrs |-> attrs, data |-> "Enum", variants |-> variants]
Struct(attrs) == [attrs |-> attrs, data |-> "Struct", variants |-> <<>>]

\* The declaration-level attributes of the declarations whose variants vary.
AttrLists == {<<>>, <<PA_good>>}

\* Declarations that vary the shape of the attributes.
TokenPool ==
  {Lit(<<"p">>), Lit(<<"a", ":", "/">>), Lit(<<"E">>), Punct("="), Literal(<<"1">>)}

Streams == UNION {[1..n -> TokenPool] : n \in 0..MaxStreamLen}

AttrPool ==
  {PrefixAttrOf(st) : st \in Streams}
  \cup {Attr(<<"iri_prefix">>, <<>>), Attr(<<"iri_prefix">>, <<Punct("="), Lit(<<"p">>)>>),
        Attr(<<"serde", "iri_prefix">>, <<Group(<<>>)>>), DocAttr}

AttrVariantPool ==
  VariantPool
  \cup {VariantOf(<<>>, NamedFields), VariantOf(<<>>, UnnamedFields(<<>>)),
        VariantOf(<<Attr(<<"iri">>, <<>>)>>, UnitFields),
        VariantOf(<<Attr(<<"iri">>, <<Group(<<>>)>>)>>, UnitFields),
        VariantOf(<<Attr(<<"iri">>, <<Group(<<Literal(<<"1">>)>>)>>)>>, UnitFields),
        VariantOf(<<Attr(<<"iri">>, <<Group(<<Lit(I_a), Lit(I_b)>>)>>)>>, UnitFields),
        VariantOf(<<DocAttr, IriAttr(I_a)>>, UnitFields),
        VariantOf(<<IriAttr(I_a), IriAttr(I_b)>>, UnitFields),
        VariantOf(<<IriAttr(<<"a", ":", "/", "E">>)>>, UnitFields)}

ShapedAttrLists == {<<a>> : a \in AttrPool} \cup {<<a, PA_good>> : a \in AttrPool}

ShapedVariantLists ==
  {<<v>> : v \in AttrVariantPool}
  \cup {<<VariantOf(<<IriAttr(I_pa)>>, UnitFields), VariantOf(<<>>, UnnamedFields(<<"T1">>))>>}

\* IRIs the generated try_from is called with.
QueryIris == {I_a, I_b, I_c, I_z, I_pa}

\* Literal tokens the Rust lexer produces, on the model's characters: a string
\* literal (escapes kept as written), a raw string literal, an integer
\* literal, each with an optional suffix.
LitChars == {Q, BS, "a", "E", "r", "1"}

IsSuffix(s) == s = <<>> \/ (s[1] \in {"a", "r"} /\ \A k \in DOMAIN s : s[k] \in {"a", "r", "1"})

\* The index of the quote closing the string content that starts at k.
RECURSIVE ClosingQuote(_, _)
ClosingQuote(s, k) ==
  IF k > Len(s) THEN None
  ELSE IF s[k] = BS THEN ClosingQuote(s, k + 2)
  ELSE IF s[k] = Q THEN k
  ELSE ClosingQuote(s, k + 1)

IsStrLiteral(s) ==
  /\ Len(s) >= 2
  /\ s[1] = Q
  /\ LET c == ClosingQuote(s, 2) IN c # None /\ IsSuffix(SubSeq(s, c + 1, Len(s)))

IsRawStrLiteral(s) ==
  /\ Len(s) >= 3
  /\ s[1] = "r"
  /\ s[2] = Q
  /\ LET c == Find(Tail(Tail(s)), Q) IN c # None /\ IsSuffix(SubSeq(s, c + 4, Len(s)))

IsIntLiteral(s) ==
  /\ Len(s) >= 1
  /\ s[1] = "1"
  /\ \A k \in DOMAIN s : s[k] \in {"1", "a", "r"}

Tokens ==
  {Literal(s) : s \in {t \in StrsUpTo(LitChars, MaxLitLen) :
                         IsStrLiteral(t) \/ IsRawStrLiteral(t) \/ IsIntLiteral(t)}}
  \cup {Punct("="), Ident(<<"a">>), Group(<<Lit(<<"a">>)>>)}

\* Inputs of expand_iri.
ValueChars == {"a", ":", "/", "#", "1"}

Tables ==
  {EmptyMap,
   [k \in {<<"a">>} |-> <<"a", ":", "/">>],
   [k \in {<<"a">>} |-> <<"a", ":", "#">>],
   [k \in {<<"a">>, <<"a", "a">>} |-> IF k = <<"a">> THEN <<"a", ":", "/", "/", "a">> ELSE <<"a", ":">>],
   [k \in {<<"/">>, <<"1">>} |-> <<"a", ":", "/", "/", "a", ":">>]}

\* ------------------------------------------------------------ state machine
NoOutput == [kind |-> "none", msg |-> <<>>, code |-> NoCode]
NoValue == UnitValue("")
Call(fn, iri, value) == [fn |-> fn, iri |-> iri, value |-> value]
NoCall == Call("none", <<>>, NoValue)

Start(decl) ==
  /\ pc = "attrs"
  /\ ast = decl
  /\ i = 1
  /\ prefixes = EmptyMap
  /\ try_from = <<>>
  /\ try_from_default = <<>>
  /\ into = <<>>
  /\ output = NoOutput
  /\ arg = NoCall
  /\ ret = Err(Unit)

\* An enum, or a struct (which has no variants), with the same attributes.
Init ==
  \E as \in AttrLists, vs \in VariantLists :
    \E decl \in {Enum(as, vs), Struct(as)} : Start(decl)

InitAttrs ==
  \E as \in ShapedAttrLists, vs \in ShapedVariantLists :
    \E decl \in {Enum(as, vs), Struct(as)} : Start(decl)

\* lib.rs:113-152, one attribute of the declaration.
ParsePrefixAttr ==
  /\ pc = "attrs"
  /\ i <= Len(ast.attrs)
  /\ LET o == PrefixAttr(ast.attrs[i], prefixes) IN
     IF o.kind = "return"
     THEN /\ pc' = "returned"
          /\ output' = o.out
          /\ UNCHANGED <<i, prefixes>>
     ELSE /\ i' = i + 1
          /\ prefixes' = o.prefixes
          /\ UNCHANGED <<pc, output>>
  /\ UNCHANGED <<ast, try_from, try_from_default, into, arg, ret>>

\* lib.rs:154-159 and 290-292: match ast.data.
MatchData ==
  /\ pc = "attrs"
  /\ i > Len(ast.attrs)
  /\ IF ast.data = "Enum"
     THEN /\ pc' = "variants"
          /\ i' = 1
          /\ output' = output
     ELSE /\ pc' = "returned"
          /\ i' = i
          /\ output' = error(<<"only enums are handled by IriEnum">>)
  /\ try_from' = <<>>
  /\ try_from_default' = <<>>
  /\ into' = <<>>
  /\ UNCHANGED <<ast, prefixes, arg, ret>>

\* lib.rs:161-228, one variant.
ProcessVariant ==
  /\ pc = "variants"
  /\ i <= Len(ast.variants)
  /\ LET o == Variant(ast.variants[i], IdentOf(i), prefixes,
                      Code(try_from, try_from_default, into)) IN
     IF o.kind = "return"
     THEN /\ pc' = "returned"
          /\ output' = o.out
          /\ UNCHANGED <<i, try_from, try_from_default, into>>
     ELSE /\ i' = i + 1
          /\ try_from' = o.code.try_from
          /\ try_from_default' = o.code.try_from_default
          /\ into' = o.code.into
          /\ UNCHANGED <<pc, output>>
  /\ UNCHANGED <<ast, prefixes, arg, ret>>

\* lib.rs:230-288: the implementations are emitted.
EmitOutput ==
  /\ pc = "variants"
  /\ i > Len(ast.variants)
  /\ pc' = "returned"
  /\ output' = [kind |-> "code", msg |-> <<>>,
                code |-> Code(try_from, try_from_default, into)]
  /\ UNCHANGED <<ast, i, prefixes, try_from, try_from_default, into, arg, ret>>

\* A call of the generated TryFrom<&Iri>::try_from.
TryFrom ==
  /\ pc = "returned"
  /\ output.kind = "code"
  /\ \E iri \in QueryIris :
       /\ arg' = Call("try_from", iri, NoValue)
       /\ ret' = TryFromEval(output.code, iri)
  /\ UNCHANGED <<pc, ast, i, prefixes, try_from, try_from_default, into, output>>

\* A call of the generated From<&Enum> for &Iri.
Into ==
  /\ pc = "returned"
  /\ output.kind = "code"
  /\ \E value \in EnumValues(output.code) :
       /\ arg' = Call("into", <<>>, value)
       /\ ret' = Ok(IntoEval(output.code.into, 1, value))
  /\ UNCHANGED <<pc, ast, i, prefixes, try_from, try_from_default, into, output>>

Next == ParsePrefixAttr \/ MatchData \/ ProcessVariant \/ EmitOutput \/ TryFrom \/ Into

Spec == Init /\ [][Next]_vars

SpecAttrs == InitAttrs /\ [][Next]_vars

\* string_literal_token applied to one token.
Idle ==
  /\ ast = Struct(<<>>)
  /\ i = 0
  /\ prefixes = EmptyMap
  /\ try_from = <<>>
  /\ try_from_default = <<>>
  /\ into = <<>>
  /\ output = NoOutput

InitLit ==
  /\ pc = "call"
  /\ arg \in Tokens
  /\ ret = Err(Unit)
  /\ Idle

CallStringLiteralToken ==
  /\ pc = "call"
  /\ pc' = "return"
  /\ ret' = string_literal_token(arg)
  /\ UNCHANGED <<ast, i, prefixes, try_from, try_from_default, into, output, arg>>

SpecLit == InitLit /\ [][CallStringLiteralToken]_vars

\* expand_iri applied to one raw string and one prefix table.
InitExpand ==
  /\ pc = "call"
  /\ arg \in [value : StrsUpTo(ValueChars, MaxValueLen), table : Tables]
  /\ ret = Err(Unit)
  /\ Idle

CallExpandIri ==
  /\ pc = "call"
  /\ pc' = "return"
  /\ ret' = expand_iri(arg.value, arg.table)
  /\ UNCHANGED <<ast, i, prefixes, try_from, try_from_default, into, output, arg>>

SpecExpand == InitExpand /\ [][CallExpandIri]_vars

\* ------------------------------------------------------------ properties
\* What the declaration says, read off ast without running the macro.
MinOf(S) == CHOOSE x \in S : \A y \in S : x <= y
MaxOf(S) == CHOOSE x \in S : \A y \in S : x >= y

Generated == pc = "returned" /\ output.kind = "code"

IsUnit(k) == ast.variants[k].fields.kind = "Unit"

IsWrapping(k) ==
  /\ ast.variants[k].fields.kind = "Unnamed"
  /\ Len(ast.variants[k].fields.tys) = 1

InnerOf(k) == ast.variants[k].fields.tys[1]

IriAttrsOf(v) == {j \in DOMAIN v.attrs : v.attrs[j].path = <<"iri">>}

\* The text between the two quotes of a string literal token.
Content(token) == SubSeq(token.text, 2, Len(token.text) - 1)

\* The string an iri attribute carries.
Carried(attr) == Content(attr.tokens[1].stream[1])

\* The expanded identifier of variant k: its last iri attribute, expanded.
DeclaredIri(k) ==
  LET v == ast.variants[k] IN
  expand_iri(Carried(v.attrs[MaxOf(IriAttrsOf(v))]), prefixes).val

UnitsWith(iri) == {k \in DOMAIN ast.variants : IsUnit(k) /\ DeclaredIri(k) = iri}

Accepting(iri) ==
  {k \in DOMAIN ast.variants : IsWrapping(k) /\ InnerTryFrom(InnerOf(k), iri).ok}

\* C1 as stated: for every Unit variant V with identifier I, try_from(I)
\* returns Ok(V) and the conversion of V to an Iri returns I.
C1_Original ==
  Generated =>
    \A k \in DOMAIN ast.variants :
      IsUnit(k) =>
        /\ (arg.fn = "try_from" /\ arg.iri = DeclaredIri(k))
             => (ret.ok /\ ret.val = UnitValue(IdentOf(k)))
        /\ (arg.fn = "into" /\ arg.value = UnitValue(IdentOf(k)))
             => ret.val = DeclaredIri(k)

\* C1 amended: try_from(I) returns Ok of the first declared Unit variant whose
\* identifier is I (V itself when no earlier Unit variant shares I), and the
\* conversion of every Unit variant V to an Iri returns its identifier.
C1_RoundTrip ==
  Generated =>
    \A k \in DOMAIN ast.variants :
      IsUnit(k) =>
        /\ (arg.fn = "try_from" /\ arg.iri = DeclaredIri(k))
             => (ret.ok /\ ret.val = UnitValue(IdentOf(MinOf(UnitsWith(arg.iri)))))
        /\ (arg.fn = "into" /\ arg.value = UnitValue(IdentOf(k)))
             => ret.val = DeclaredIri(k)

\* try_from was called with an identifier two Unit variants share and
\* returned the first of them.
C1_Witness ==
  /\ Generated
  /\ arg.fn = "try_from"
  /\ Cardinality(UnitsWith(arg.iri)) >= 2
  /\ ret.ok
  /\ ret.val = UnitValue(IdentOf(MinOf(UnitsWith(arg.iri))))

\* C2: an IRI that is the identifier of no Unit variant and that no wrapped
\* inner type accepts is rejected by the generated try_from.
C2_UnknownRejected ==
  (Generated /\ arg.fn = "try_from" /\ UnitsWith(arg.iri) = {} /\ Accepting(arg.iri) = {})
    => ~ret.ok

\* try_from rejected an IRI for an enum with Unit and Wrapping variants.
C2_Witness ==
  /\ Generated
  /\ arg.fn = "try_from"
  /\ UnitsWith(arg.iri) = {}
  /\ Accepting(arg.iri) = {}
  /\ \E k \in DOMAIN ast.variants : IsUnit(k)
  /\ \E k \in DOMAIN ast.variants : IsWrapping(k)
  /\ ~ret.ok

\* C3: an IRI equal to the identifier of some Unit variant resolves to a Unit
\* variant with that identifier, never to a Wrapping variant, whatever the
\* inner types accept and wherever the Wrapping variants are declared.
C3_UnitPriority ==
  (Generated /\ arg.fn = "try_from" /\ UnitsWith(arg.iri) # {})
    => /\ ret.ok
       /\ ret.val.inner = <<>>
       /\ \E k \in UnitsWith(arg.iri) : ret.val.variant = IdentOf(k)

\* try_from resolved to a Unit variant an IRI that a Wrapping variant declared
\* before it would accept too.
C3_Witness ==
  /\ Generated
  /\ arg.fn = "try_from"
  /\ ret.ok
  /\ ret.val.inner = <<>>
  /\ \E k \in UnitsWith(arg.iri) : \E j \in Accepting(arg.iri) : j < k

\* C8 as stated: with no Unit match, the result is the first declared Wrapping
\* variant whose inner type accepts the IRI, Err(()) when none accepts.
C8_Original ==
  (Generated /\ arg.fn = "try_from" /\ UnitsWith(arg.iri) = {})
    => IF Accepting(arg.iri) = {} THEN ~ret.ok
       ELSE LET k == MinOf(Accepting(arg.iri)) IN
            /\ ret.ok
            /\ ret.val = WrapValue(IdentOf(k), InnerValue(InnerOf(k), arg.iri))

\* C8 amended: the inner types are attempted in reverse declaration order, so
\* the result is the last declared Wrapping variant whose inner type accepts
\* the IRI, Err(()) when none accepts.
C8_LastWrapping ==
  (Generated /\ arg.fn = "try_from" /\ UnitsWith(arg.iri) = {})
    => IF Accepting(arg.iri) = {} THEN ~ret.ok
       ELSE LET k == MaxOf(Accepting(arg.iri)) IN
            /\ ret.ok
            /\ ret.val = WrapValue(IdentOf(k), InnerValue(InnerOf(k), arg.iri))

\* try_from returned the later of two Wrapping variants of different inner
\* types that both accept the IRI.
C8_Witness ==
  /\ Generated
  /\ arg.fn = "try_from"
  /\ UnitsWith(arg.iri) = {}
  /\ \E j, k \in Accepting(arg.iri) : j < k /\ InnerOf(j) # InnerOf(k)
  /\ ret.ok
  /\ ret.val.variant = IdentOf(MaxOf(Accepting(arg.iri)))

\* The variant about to be processed has exactly one unnamed field and iri
\* attributes, each carrying a string.
WrappingWithIri ==
  /\ pc = "variants"
  /\ i <= Len(ast.variants)
  /\ IsWrapping(i)
  /\ IriAttrsOf(ast.variants[i]) # {}
  /\ \A j \in IriAttrsOf(ast.variants[i]) :
       LET a == ast.variants[i].attrs[j] IN
       /\ Len(a.tokens) > 0
       /\ a.tokens[1].kind = "Group"
       /\ string_literal(a.tokens[1].stream).ok

WithoutIri(v) == [v EXCEPT !.attrs = SelectSeq(v.attrs, LAMBDA a : a.path # <<"iri">>)]

\* The step taken is the step the same variant without its iri attributes
\* would take.
SameAsWithoutIri ==
  LET o == Variant(WithoutIri(ast.variants[i]), IdentOf(i), prefixes,
                   Code(try_from, try_from_default, into)) IN
  IF o.kind = "return"
  THEN pc' = "returned" /\ output' = o.out
  ELSE /\ pc' = pc
       /\ i' = i + 1
       /\ try_from' = o.code.try_from
       /\ try_from_default' = o.code.try_from_default
       /\ into' = o.code.into
       /\ output' = output

\* expand_iri accepts the string string_literal_token extracts from every iri
\* attribute of the variant about to be processed.
ExtractedAccepted ==
  \A j \in IriAttrsOf(ast.variants[i]) :
    expand_iri(string_literal(ast.variants[i].attrs[j].tokens[1].stream).val, prefixes).ok

\* C10 as stated: an iri attribute on a variant with exactly one unnamed
\* field changes nothing, whatever string it carries.
C10_Original == [][WrappingWithIri => SameAsWithoutIri]_vars

\* C10 amended: the string extracted from an iri attribute on a variant with
\* exactly one unnamed field is expanded and validated; when expand_iri
\* rejects it generation aborts and no code is emitted, and when expand_iri
\* accepts it the outcome and the emitted code are those of the declaration
\* without the attribute.
C10_ValidatedThenUnused ==
  [][WrappingWithIri =>
       IF ExtractedAccepted THEN SameAsWithoutIri
       ELSE pc' = "returned" /\ output'.kind \in {"compile_error", "panic"}]_vars

\* Code was generated for an enum with a Wrapping variant that has an iri
\* attribute.
C10_Witness ==
  /\ Generated
  /\ \E k \in DOMAIN ast.variants : IsWrapping(k) /\ IriAttrsOf(ast.variants[k]) # {}

\* The raw string is a compact form: its first ':' is at an index > 0, the
\* text after it does not start with "//", the text before it is a key.
IsCompactForm(v, table, c) ==
  /\ c \in DOMAIN v
  /\ v[c] = ":"
  /\ \A j \in 1..(c - 1) : v[j] # ":"
  /\ c > 1
  /\ ~(c + 2 <= Len(v) /\ v[c + 1] = "/" /\ v[c + 2] = "/")
  /\ SubSeq(v, 1, c - 1) \in DOMAIN table

Validated(s) == IF IriValid(s) THEN Ok(s) ELSE Err(Unit)

\* C4: a compact form expands to the validated concatenation of the base IRI
\* and the suffix, an error when that is no IRI; the raw string is not retried
\* as an absolute IRI.
C4_CompactExpansion ==
  pc = "return" =>
    \A c \in DOMAIN arg.value :
      IsCompactForm(arg.value, arg.table, c) =>
        ret = Validated(arg.table[SubSeq(arg.value, 1, c - 1)]
                        \o SubSeq(arg.value, c + 1, Len(arg.value)))

\* expand_iri failed on a compact form that is itself a valid absolute IRI.
C4_Witness ==
  /\ pc = "return"
  /\ \E c \in DOMAIN arg.value : IsCompactForm(arg.value, arg.table, c)
  /\ IriValid(arg.value)
  /\ ~ret.ok

\* C5: every other raw string is validated whole, whatever the prefix table
\* holds.
C5_Absolute ==
  (pc = "return" /\ \A c \in DOMAIN arg.value : ~IsCompactForm(arg.value, arg.table, c))
    => ret = Validated(arg.value)

\* expand_iri returned, unexpanded, a string "<key>://..." whose scheme is a
\* registered prefix.
C5_Witness ==
  /\ pc = "return"
  /\ \E c \in DOMAIN arg.value :
       /\ arg.value[c] = ":"
       /\ SubSeq(arg.value, 1, c - 1) \in DOMAIN arg.table
       /\ c + 2 <= Len(arg.value)
       /\ arg.value[c + 1] = "/"
       /\ arg.value[c + 2] = "/"
  /\ ret = Ok(arg.value)

IsStringLiteral(t) ==
  /\ t.kind = "Literal"
  /\ Len(t.text) >= 2
  /\ t.text[1] = Q
  /\ t.text[Len(t.text)] = Q

\* C9: string_literal_token returns the text between the outer quotes exactly
\* when the token is a literal of length >= 2 that starts and ends with a
\* quote, an error otherwise, for every content.
C9_Claim ==
  pc = "return" =>
    ret = IF IsStringLiteral(arg) THEN Ok(Content(arg)) ELSE Err(Unit)

IsPrefixAttr(a) ==
  /\ a.path = <<"iri_prefix">>
  /\ Len(a.tokens) > 0
  /\ a.tokens[1].kind = "Group"

ExactShape(st) ==
  /\ Len(st) = 3
  /\ IsStringLiteral(st[1])
  /\ st[2] = Punct("=")
  /\ IsStringLiteral(st[3])

\* C7: an iri_prefix attribute whose inner stream is not exactly
\* [string literal, =, string literal] aborts generation and adds no entry:
\* once such an attribute has been processed, the macro has returned without
\* emitting code.
C7_Claim ==
  \A j \in DOMAIN ast.attrs :
    (IsPrefixAttr(ast.attrs[j]) /\ ~ExactShape(ast.attrs[j].tokens[1].stream))
      => \/ pc = "attrs" /\ i <= j
         \/ pc = "returned" /\ output.kind \in {"compile_error", "panic"}

\* The errors the declaration holds.
DeclHasError ==
  \/ ast.data # "Enum"
  \/ \E k \in DOMAIN ast.variants :
       \/ IsUnit(k) /\ IriAttrsOf(ast.variants[k]) = {}
       \/ ast.variants[k].fields.kind = "Named"
       \/ ast.variants[k].fields.kind = "Unnamed" /\ Len(ast.variants[k].fields.tys) > 1
  \/ \E j \in DOMAIN ast.attrs :
       /\ IsPrefixAttr(ast.attrs[j])
       /\ LET st == ast.attrs[j].tokens[1].stream IN
          \/ \A k \in DOMAIN st : st[k] # Punct("=")
          \/ ExactShape(st) /\ ~IriValid(Content(st[3]))

\* C6: a declaration that holds an error yields one compile_error directive
\* and no implementation.
C6_Claim ==
  (pc = "returned" /\ DeclHasError)
    => (output.kind = "compile_error" /\ output.code = NoCode)

====
